---- MODULE Spec2Model ----
(***************************************************************************)
(* Goal list ordering, offline reorder queue and controller of the DoIt    *)
(* goal tracker: app/lib/goalStorage.ts, app/page.tsx and the columns      *)
(* that feed the reorder callback.                                         *)
(***************************************************************************)
EXTENDS Integers, Sequences, FiniteSets, TLC

\* ------------------------------------------------------------------ bounds
MaxGoals == 3   \* ids handed out by nanoid()
MaxNow == 4     \* readings of the clock that stamp a goal
MaxDay == 1     \* calendar days that pass
MaxQueue == 1   \* entries of the offline reorder queue (controller)
MaxStoreQueue == 2  \* entries of the offline reorder queue (Goal Store driven directly)
MaxIdsLen == 3  \* length of an id sequence handed to the Goal Store directly
MaxTabGoals == 2  \* ids handed out while two tabs are open or the storage fills up
MaxInbox == 1   \* storage events a tab has not handled yet when the other tab acts
MaxTabNow == 2  \* readings of the clock while two tabs are open or the storage fills up
MaxTabLen == 2  \* goals one collection of a tab holds while two tabs are open
MaxForeignInbox == 1  \* storage events of a foreign writer the tab has not handled yet
MaxKeys == 2    \* keys a surface handles between leaving Idle and returning to it
MaxInits == 3   \* storage listeners made in one window, the mount effect's included

\* --------------------------------------------------------------- constants
ACTIVE_GOALS_KEY == "doit_goals"
COMPLETED_GOALS_KEY == "doit_completed"
REORDER_QUEUE_KEY == "reorder-queue"

Keys == {ACTIVE_GOALS_KEY, COMPLETED_GOALS_KEY, REORDER_QUEUE_KEY}
ListTypes == {"active", "completed"}
Tabs == {1, 2}
Titles == {"run"}

VARIABLES
  ls,              \* localStorage: key -> [kind, val]
  online,          \* navigator.onLine
  now,             \* the clock (Date.now())
  today,           \* the calendar day (startOfDay(new Date()))
  nextId,          \* next id nanoid() hands out
  goals,           \* per tab: useState goals
  completedGoals,  \* per tab: useState completedGoals
  isLoading,       \* per tab: useState isLoading
  open,            \* tabs whose document is open
  inbox,           \* per tab: storage events not yet dispatched
  call,            \* the call a direct client of the Goal Store makes
  last,            \* the reorder, online or storage event that ran last, if the last step was one
  full,            \* localStorage.setItem throws (quota exceeded)
  surface,         \* the two DraggableGoalsList instances and the document focus
  notifier,        \* crossTabSync in the window of tab 1: its module variables and the
                   \* storage listeners registered on the window
  effects          \* per tab: the save effects of a render are scheduled and have not run

vars == <<ls, online, now, today, nextId, goals, completedGoals, isLoading, open, inbox, call, last,
          full, surface, notifier, effects>>

\* ------------------------------------------------------------------ values
\* A Date object, its JSON text, an undefined field and a key JSON leaves out.
Date(n) == <<"Date", n>>
Iso(n) == <<"iso", n>>
Undefined == <<"undefined", 0>>
Missing == <<"missing", 0>>

\* localStorage.getItem results: null, or the text of a JSON array.
Null == [kind |-> "null", val |-> <<>>]
Json(s) == [kind |-> "json", val |-> s]
\* What another writer of the same origin can leave under a key: the empty
\* string, text JSON.parse rejects (val: the goals a cut-off array begins
\* with) and JSON text of a value that is not an array ("{}").
Empty == [kind |-> "empty", val |-> <<>>]
Garbage(s) == [kind |-> "garbage", val |-> s]
NotArray == [kind |-> "notarray", val |-> <<>>]

NoCall == [goalIds |-> <<>>, listType |-> "active"]
\* had: the ids the collection held before a reorder; pending: the queue length before.
Did(op, listType, goalIds, had, pending) ==
  [op |-> op, listType |-> listType, goalIds |-> goalIds, had |-> had, pending |-> pending]
Other == Did("other", "", <<>>, {}, 0)

\* A DraggableGoalsList: pendingPosition (null is NullPos) and the isDisabled
\* prop per list type, and the card that has the focus. selectedId, keys and
\* event are history: the goal on which the pending move was started, the
\* keys handled since the surface was Idle, and the key event of the last step
\* with the pendingPosition it found.
NullPos == 0 - 1
NoFocus == [listType |-> "none", index |-> 0]
NoEvent == [key |-> "none", shiftKey |-> FALSE, listType |-> "none", index |-> 0, pending |-> 0 - 1]
IdleSurface ==
  [pendingPosition |-> [lt \in ListTypes |-> NullPos],
   isDisabled |-> [lt \in ListTypes |-> FALSE],
   focus |-> NoFocus,
   selectedId |-> [lt \in ListTypes |-> 0],
   keys |-> [lt \in ListTypes |-> <<>>],
   event |-> NoEvent]

\* crossTabSync: the listeners on the window (numbered as they were made),
\* the module variables storageListener (0 is null) and syncCallback (set or
\* null), and the number of listeners made so far.
NoNotifier == [registered |-> {}, storageListener |-> 0, syncCallback |-> FALSE, made |-> 0]
\* After the page's mount effect ran once.
Subscribed == [registered |-> {1}, storageListener |-> 1, syncCallback |-> TRUE, made |-> 1]

Range(s) == {s[i] : i \in 1..Len(s)}
IdsOf(gs) == [i \in 1..Len(gs) |-> gs[i].id]
IdSet(gs) == {gs[i].id : i \in 1..Len(gs)}

\* Array.prototype.sort with a comparator that subtracts keys; key[i] is the
\* pair <<first key, second key>> of s[i]. The sort is stable: an element's
\* place is the number of elements that compare before it.
StableSort(s, key) ==
  LET n == Len(s)
      Before(i, j) == \/ key[i][1] < key[j][1]
                      \/ key[i][1] = key[j][1] /\ key[i][2] < key[j][2]
      rank(i) == Cardinality({j \in 1..n : Before(j, i) \/ (~Before(i, j) /\ j < i)}) + 1
  IN [p \in 1..n |-> s[CHOOSE i \in 1..n : rank(i) = p]]

\* --------------------------------------------------------- JSON round trip
StringifyDate(d) == IF d = Undefined THEN Missing ELSE Iso(d[2])

StringifyGoal(g) ==
  [id |-> g.id, title |-> g.title,
   endDate |-> StringifyDate(g.endDate),
   createdAt |-> StringifyDate(g.createdAt),
   completedAt |-> StringifyDate(g.completedAt),
   order |-> g.order,
   syncStatus |-> IF g.syncStatus = "undefined" THEN "missing" ELSE g.syncStatus]

Stringify(gs) == Json([i \in 1..Len(gs) |-> StringifyGoal(gs[i])])

NewDate(s) == Date(s[2])

ParseGoal(p) ==
  [id |-> p.id, title |-> p.title,
   endDate |-> NewDate(p.endDate),
   createdAt |-> NewDate(p.createdAt),
   completedAt |-> IF p.completedAt # Missing THEN NewDate(p.completedAt) ELSE Undefined,
   order |-> p.order,
   syncStatus |-> IF p.syncStatus = "missing" THEN "undefined" ELSE p.syncStatus]

\* ---------------------------------------------------------------- goalStorage
isOnline == online

getStorageKey(listType) ==
  IF listType = "active" THEN ACTIVE_GOALS_KEY ELSE COMPLETED_GOALS_KEY

\* Mutation: the text is read as far as it goes.
loadGoalsLenient(store, key) ==
  [i \in 1..Len(store[key].val) |-> ParseGoal(store[key].val[i])]

\* getItem, JSON.parse and map inside a try whose catch returns []: a missing
\* or empty value, text JSON.parse rejects and a value without map give [].
loadGoals(store, key) ==
  IF store[key].kind # "json" THEN <<>>
  ELSE [i \in 1..Len(store[key].val) |-> ParseGoal(store[key].val[i])]

loadActiveGoals(store) == loadGoals(store, ACTIVE_GOALS_KEY)
loadCompletedGoals(store) == loadGoals(store, COMPLETED_GOALS_KEY)

\* A write is <<key, value>>; the save functions return the write they make.
saveActiveGoals(gs) == <<ACTIVE_GOALS_KEY, Stringify(gs)>>

\* Mutation: the completed goals are written under the active key.
saveCompletedToActive(gs) == <<ACTIVE_GOALS_KEY, Stringify(gs)>>

saveCompletedGoals(gs) == <<COMPLETED_GOALS_KEY, Stringify(gs)>>

\* A goal stored before the order field existed has none: order is undefined
\* in memory and left out of the JSON text.
NoOrder == 0 - 1

\* The comparator is (a.order ?? 0) - (b.order ?? 0).
getGoalsOrdered(store, listType) ==
  LET gs == IF listType = "active" THEN loadActiveGoals(store) ELSE loadCompletedGoals(store)
  IN StableSort(gs, [i \in 1..Len(gs) |->
                      <<IF gs[i].order = NoOrder THEN 0 ELSE gs[i].order, 0>>])

\* new Map(entries).get(id): the last entry with that id.
GoalMapGet(gs, id) ==
  gs[CHOOSE i \in 1..Len(gs) : gs[i].id = id /\ \A j \in (i+1)..Len(gs) : gs[j].id # id]

\* Mutation: the new operation replaces the queue.
queueOnlyLatest(store, operation) == <<REORDER_QUEUE_KEY, Json(<<operation>>)>>

queueReorderOperation(store, operation) ==
  LET operations == IF store[REORDER_QUEUE_KEY].kind = "json"
                    THEN store[REORDER_QUEUE_KEY].val ELSE <<>>
  IN <<REORDER_QUEUE_KEY, Json(Append(operations, operation))>>

\* Mutation: the order is the position in goalIds, counted before the filter.
renumberedBeforeFilter(currentGoals, goalIds) ==
  LET pos == SelectSeq([i \in 1..Len(goalIds) |-> i],
                       LAMBDA i : goalIds[i] \in IdSet(currentGoals))
  IN [k \in 1..Len(pos) |->
        [GoalMapGet(currentGoals, goalIds[pos[k]]) EXCEPT
           !.order = pos[k] - 1,
           !.syncStatus = IF online THEN "synced" ELSE "pending-sync"]]

\* Mutation: the order counts from one.
renumberedFromOne(currentGoals, goalIds) ==
  LET kept == SelectSeq(goalIds, LAMBDA id : id \in IdSet(currentGoals))
  IN [i \in 1..Len(kept) |->
        [GoalMapGet(currentGoals, kept[i]) EXCEPT
           !.order = i,
           !.syncStatus = IF online THEN "synced" ELSE "pending-sync"]]

\* goalIds.map(id => goalMap.get(id)).filter(defined), then order := index.
renumberedGoals(currentGoals, goalIds) ==
  LET kept == SelectSeq(goalIds, LAMBDA id : id \in IdSet(currentGoals))
      reorderedGoals == [i \in 1..Len(kept) |-> GoalMapGet(currentGoals, kept[i])]
  IN [i \in 1..Len(reorderedGoals) |->
        [reorderedGoals[i] EXCEPT
           !.order = i - 1,
           !.syncStatus = IF isOnline THEN "synced" ELSE "pending-sync"]]

reorderGoals(store, goalIds, listType) ==
  LET currentGoals == getGoalsOrdered(store, listType)
      renumbered == renumberedGoals(currentGoals, goalIds)
      saved == IF listType = "active" THEN saveActiveGoals(renumbered)
               ELSE saveCompletedGoals(renumbered)
  IN IF isOnline THEN <<saved>>
     ELSE <<saved,
            queueReorderOperation(store,
              [timestamp |-> now, listType |-> listType,
               goalIds |-> goalIds, syncStatus |-> "pending"])>>

\* goals.findIndex(g => g.id === goalId): the first match from 0, or -1.
findIndex(gs, goalId) ==
  IF goalId \notin IdSet(gs) THEN 0 - 1
  ELSE (CHOOSE i \in 1..Len(gs) : gs[i].id = goalId /\ \A j \in 1..(i-1) : gs[j].id # goalId) - 1

\* Mutation: the goal is not looked up first; splice(-1, 1) takes the last id.
moveGoalUnchecked(store, goalId, newPosition, listType) ==
  LET gs == getGoalsOrdered(store, listType)
      currentIndex == findIndex(gs, goalId)
      from == IF currentIndex = 0 - 1 THEN Len(gs) - 1 ELSE currentIndex
      ids == IdsOf(gs)
      without == SubSeq(ids, 1, from) \o SubSeq(ids, from + 2, Len(ids))
      at == IF newPosition > Len(without) THEN Len(without) ELSE newPosition
  IN reorderGoals(store, SubSeq(without, 1, at) \o <<goalId>> \o SubSeq(without, at + 1, Len(without)),
                  listType)

\* moveGoal: the writes it makes. goalIds.splice(currentIndex, 1), then
\* goalIds.splice(newPosition, 0, goalId), which appends when newPosition is
\* past the end.
moveGoal(store, goalId, newPosition, listType) ==
  LET gs == getGoalsOrdered(store, listType)
      currentIndex == findIndex(gs, goalId)
      ids == IdsOf(gs)
      without == SubSeq(ids, 1, currentIndex) \o SubSeq(ids, currentIndex + 2, Len(ids))
      at == IF newPosition > Len(without) THEN Len(without) ELSE newPosition
  IN IF currentIndex = 0 - 1 THEN <<>>
     ELSE reorderGoals(store, SubSeq(without, 1, at) \o <<goalId>> \o SubSeq(without, at + 1, Len(without)),
                       listType)

getPendingReorders(store) ==
  IF store[REORDER_QUEUE_KEY].kind = "json" THEN store[REORDER_QUEUE_KEY].val ELSE <<>>

\* Mutation: the emptiness test is inverted.
syncOnlyWhenEmpty(store) ==
  IF Len(getPendingReorders(store)) # 0 THEN <<>>
  ELSE << <<REORDER_QUEUE_KEY, Null>> >>

\* localStorage.removeItem(REORDER_QUEUE_KEY) unless the queue reads as empty.
syncPendingReorders(store) ==
  IF Len(getPendingReorders(store)) = 0 THEN <<>>
  ELSE << <<REORDER_QUEUE_KEY, Null>> >>

\* ------------------------------------------------------------ localStorage
RECURSIVE ApplyWrites(_, _)
ApplyWrites(store, writes) ==
  IF writes = <<>> THEN store
  ELSE ApplyWrites([store EXCEPT ![writes[1][1]] = writes[1][2]], Tail(writes))

\* A storage event is raised for a write only when it changes the value.
RECURSIVE StorageEvents(_, _)
StorageEvents(store, writes) ==
  IF writes = <<>> THEN <<>>
  ELSE LET key == writes[1][1]
           value == writes[1][2]
           rest == StorageEvents([store EXCEPT ![key] = value], Tail(writes))
       IN IF store[key] = value THEN rest
          ELSE <<[key |-> key, newValue |-> value]>> \o rest

\* setItem throws while the storage is full; removeItem never throws.
Thrown(write) == full /\ write[2].kind # "null"

\* Mutation: a full storage accepts the write all the same.
CaughtNothing(writes) == writes

\* Every setItem of goalStorage sits in a try whose catch only logs: a write
\* that throws is dropped and the caller goes on.
Caught(writes) == SelectSeq(writes, LAMBDA w : ~Thrown(w))

Commit(t, writes) ==
  /\ ls' = ApplyWrites(ls, Caught(writes))
  /\ inbox' = [u \in Tabs |->
                 IF u # t /\ u \in open THEN inbox[u] \o StorageEvents(ls, Caught(writes))
                 ELSE inbox[u]]

\* ------------------------------------------------------------------- Init
Init ==
  /\ ls = [k \in Keys |-> IF k = REORDER_QUEUE_KEY THEN Null ELSE Json(<<>>)]
  /\ online = TRUE
  /\ now = 0
  /\ today = 0
  /\ nextId = 1
  /\ goals = [t \in Tabs |-> <<>>]
  /\ completedGoals = [t \in Tabs |-> <<>>]
  /\ isLoading = [t \in Tabs |-> t # 1]
  /\ open = {1}
  /\ inbox = [t \in Tabs |-> <<>>]
  /\ call = NoCall
  /\ last = Other
  /\ full = FALSE
  /\ surface = IdleSurface
  /\ notifier = Subscribed
  /\ effects = [t \in Tabs |-> FALSE]

\* ------------------------------------------------------------- controller
\* Mutation: the save effect of goals skips an empty collection.
SaveGoalsUnlessEmpty(loading, gs) ==
  IF ~loading /\ gs # <<>> THEN <<saveActiveGoals(gs)>> ELSE <<>>

\* The two save effects: they write once loading is over.
SaveGoalsEffect(loading, gs) == IF ~loading THEN <<saveActiveGoals(gs)>> ELSE <<>>

\* Mutation: the save effect of completed goals does not look at isLoading.
SaveCompletedAlways(loading, gs) == <<saveCompletedGoals(gs)>>

SaveCompletedEffect(loading, gs) == IF ~loading THEN <<saveCompletedGoals(gs)>> ELSE <<>>

\* handleAddGoal, then the save effect of goals.
AddGoal(t, title, endDate) ==
  /\ t \in open /\ ~isLoading[t]
  /\ nextId <= MaxGoals /\ now < MaxNow
  /\ endDate >= today
  /\ LET newGoal == [id |-> nextId, title |-> title, endDate |-> Date(endDate),
                     createdAt |-> Date(now + 1), completedAt |-> Undefined,
                     order |-> Len(goals[t]), syncStatus |-> "undefined"]
         next == Append(goals[t], newGoal)
     IN /\ goals' = [goals EXCEPT ![t] = next]
        /\ Commit(t, SaveGoalsEffect(isLoading[t], next))
  /\ nextId' = nextId + 1
  /\ now' = now + 1
  /\ UNCHANGED <<online, today, completedGoals, isLoading, open, call, full, surface, notifier, effects>>
  /\ last' = Other

\* ------------------------------------------------------------- goalUtils
daysRemaining(endDate) == endDate[2] - today

sortActiveGoals(gs) ==
  StableSort(gs, [i \in 1..Len(gs) |-> <<daysRemaining(gs[i].endDate), gs[i].createdAt[2]>>])

\* completedAt?.getTime() || 0
CompletedTime(g) == IF g.completedAt = Undefined THEN 0 ELSE g.completedAt[2]

sortCompletedGoals(gs) ==
  StableSort(gs, [i \in 1..Len(gs) |-> <<0 - CompletedTime(gs[i]), 0>>])

\* ---------------------------------------------------------------- columns
\* The goals each column hands to its DraggableGoalsList.
ActiveGoalsColumn(gs) ==
  sortActiveGoals(SelectSeq(gs, LAMBDA g : daysRemaining(g.endDate) >= 0))

CompletedGoalsColumn(gs) == sortCompletedGoals(gs)

\* ids.splice(from, 1); ids.splice(to, 0, id)  (indices from 0)
Splice(ids, from, to) ==
  LET id == ids[from + 1]
      without == SubSeq(ids, 1, from) \o SubSeq(ids, from + 2, Len(ids))
      at == IF to > Len(without) THEN Len(without) ELSE to
  IN SubSeq(without, 1, at) \o <<id>> \o SubSeq(without, at + 1, Len(without))

\* extractGoalIdsFromDOM after Sortable moved one card from oldIndex to newIndex.
extractGoalIdsFromDOM(shown, oldIndex, newIndex) == Splice(IdsOf(shown), oldIndex, newIndex)

\* gs.find(g => g.id === id): the first match.
Find(gs, id) ==
  gs[CHOOSE i \in 1..Len(gs) : gs[i].id = id /\ \A j \in 1..(i-1) : gs[j].id # id]

\* { ...goal, completedAt: new Date() }
WithCompletedAt(goal, at) == [goal EXCEPT !.completedAt = Date(at)]

\* Mutation: the restored goal keeps its completedAt.
goalWithCompletedKept(goal) == goal

\* const { completedAt, ...goalWithoutCompleted } = goal
goalWithoutCompleted(goal) == [goal EXCEPT !.completedAt = Undefined]

\* Mutation: the filter keeps every goal.
WithoutKeepsAll(gs, id) == gs

\* gs.filter(g => g.id !== id)
Without(gs, id) == SelectSeq(gs, LAMBDA g : g.id # id)

\* handleCheckGoal, then the save effects of goals and completedGoals.
CheckGoal(t, id) ==
  /\ t \in open /\ ~isLoading[t]
  /\ now < MaxNow
  /\ id \in IdSet(ActiveGoalsColumn(goals[t]))
  /\ id \in IdSet(goals[t])
  /\ LET goal == Find(goals[t], id)
         nextGoals == Without(goals[t], id)
         nextCompleted == Append(completedGoals[t], WithCompletedAt(goal, now + 1))
     IN /\ goals' = [goals EXCEPT ![t] = nextGoals]
        /\ completedGoals' = [completedGoals EXCEPT ![t] = nextCompleted]
        /\ Commit(t, SaveGoalsEffect(isLoading[t], nextGoals) \o SaveCompletedEffect(isLoading[t], nextCompleted))
  /\ now' = now + 1
  /\ UNCHANGED <<online, today, nextId, isLoading, open, call, full, surface, notifier, effects>>
  /\ last' = Other

\* handleRestoreGoal, then the save effects of completedGoals and goals.
RestoreGoal(t, id) ==
  /\ t \in open /\ ~isLoading[t]
  /\ id \in IdSet(CompletedGoalsColumn(completedGoals[t]))
  /\ id \in IdSet(completedGoals[t])
  /\ LET goal == Find(completedGoals[t], id)
         nextCompleted == Without(completedGoals[t], id)
         nextGoals == Append(goals[t], goalWithoutCompleted(goal))
     IN /\ goals' = [goals EXCEPT ![t] = nextGoals]
        /\ completedGoals' = [completedGoals EXCEPT ![t] = nextCompleted]
        /\ Commit(t, SaveGoalsEffect(isLoading[t], nextGoals) \o SaveCompletedEffect(isLoading[t], nextCompleted))
  /\ UNCHANGED <<online, now, today, nextId, isLoading, open, call, full, surface, notifier, effects>>
  /\ last' = Other

\* handleDeleteGoal, then the save effect of the collection it set.
DeleteGoal(t, id, isCompleted) ==
  /\ t \in open /\ ~isLoading[t]
  /\ IF isCompleted
     THEN /\ id \in IdSet(CompletedGoalsColumn(completedGoals[t]))
          /\ LET nextCompleted == Without(completedGoals[t], id)
             IN /\ completedGoals' = [completedGoals EXCEPT ![t] = nextCompleted]
                /\ Commit(t, SaveCompletedEffect(isLoading[t], nextCompleted))
          /\ UNCHANGED goals
     ELSE /\ id \in IdSet(ActiveGoalsColumn(goals[t]))
          /\ LET nextGoals == Without(goals[t], id)
             IN /\ goals' = [goals EXCEPT ![t] = nextGoals]
                /\ Commit(t, SaveGoalsEffect(isLoading[t], nextGoals))
          /\ UNCHANGED completedGoals
  /\ UNCHANGED <<online, now, today, nextId, isLoading, open, call, full, surface, notifier, effects>>
  /\ last' = Other

\* Mutation: goals left out of goalIds are kept after the others.
ReorderedKeepingRest(gs, goalIds) ==
  LET kept == SelectSeq(goalIds, LAMBDA id : id \in IdSet(gs))
      rest == SelectSeq(gs, LAMBDA g : \A i \in 1..Len(goalIds) : goalIds[i] # g.id)
      all == [i \in 1..Len(kept) |-> Find(gs, kept[i])] \o rest
  IN [i \in 1..Len(all) |-> [all[i] EXCEPT !.order = i - 1]]

\* goalIds.map(find).filter(defined).map(order := index) of the handlers.
Reordered(gs, goalIds) ==
  LET kept == SelectSeq(goalIds, LAMBDA id : id \in IdSet(gs))
  IN [i \in 1..Len(kept) |-> [Find(gs, kept[i]) EXCEPT !.order = i - 1]]

QueueRoom == online \/ Len(getPendingReorders(ls)) < MaxQueue

\* handleReorderActive: reorderGoals, setGoals, then the save effect of goals.
\* The surface that called it says what becomes of its own state.
handleReorderActive(t, goalIds) ==
  LET reordered == Reordered(goals[t], goalIds)
  IN /\ goals' = [goals EXCEPT ![t] = reordered]
     /\ Commit(t, reorderGoals(ls, goalIds, "active") \o SaveGoalsEffect(isLoading[t], reordered))
     /\ UNCHANGED <<online, now, today, nextId, completedGoals, isLoading, open, call, full, notifier, effects>>
     /\ last' = Did("reorder", "active", goalIds, IdSet(goals[t]), Len(getPendingReorders(ls)))

\* handleReorderCompleted likewise.
handleReorderCompleted(t, goalIds) ==
  LET reordered == Reordered(completedGoals[t], goalIds)
  IN /\ completedGoals' = [completedGoals EXCEPT ![t] = reordered]
     /\ Commit(t, reorderGoals(ls, goalIds, "completed") \o SaveCompletedEffect(isLoading[t], reordered))
     /\ UNCHANGED <<online, now, today, nextId, goals, isLoading, open, call, full, notifier, effects>>
     /\ last' = Did("reorder", "completed", goalIds, IdSet(completedGoals[t]), Len(getPendingReorders(ls)))

\* A card of the active column is dragged and dropped: handleDragEnd. Sortable
\* is only created while the surface is not disabled.
DropActive(t, oldIndex, newIndex) ==
  /\ t \in open /\ ~isLoading[t] /\ QueueRoom
  /\ ~surface.isDisabled["active"]
  /\ LET shown == ActiveGoalsColumn(goals[t])
     IN /\ oldIndex < Len(shown) /\ newIndex < Len(shown)
        /\ handleReorderActive(t, extractGoalIdsFromDOM(shown, oldIndex, newIndex))
  /\ surface' = [surface EXCEPT !.event = NoEvent]

DropCompleted(t, oldIndex, newIndex) ==
  /\ t \in open /\ ~isLoading[t] /\ QueueRoom
  /\ ~surface.isDisabled["completed"]
  /\ LET shown == CompletedGoalsColumn(completedGoals[t])
     IN /\ oldIndex < Len(shown) /\ newIndex < Len(shown)
        /\ handleReorderCompleted(t, extractGoalIdsFromDOM(shown, oldIndex, newIndex))
  /\ surface' = [surface EXCEPT !.event = NoEvent]

\* ------------------------------------------------------ DraggableGoalsList
\* The goals prop of the surface of one list type.
Shown(t, listType) ==
  IF listType = "active" THEN ActiveGoalsColumn(goals[t])
  ELSE CompletedGoalsColumn(completedGoals[t])

KeyNames == {"ArrowUp", "ArrowDown", "Enter", "Escape", "Tab"}

\* Mutation: Escape commits the pending move.
handleKeyDownEscapeCommits(shown, pendingPosition, key, shiftKey, index) ==
  LET stay == [pendingPosition |-> pendingPosition, onReorder |-> <<>>, focus |-> index]
      total == Len(shown)
  IN IF index >= total THEN stay
     ELSE CASE key = "ArrowUp" ->
                 IF shiftKey /\ index > 0 THEN [stay EXCEPT !.pendingPosition = index - 1] ELSE stay
            [] key = "ArrowDown" ->
                 IF shiftKey /\ index < total - 1 THEN [stay EXCEPT !.pendingPosition = index + 1] ELSE stay
            [] key = "Enter" ->
                 IF pendingPosition # NullPos /\ pendingPosition # index
                 THEN [pendingPosition |-> NullPos,
                       onReorder |-> <<Splice(IdsOf(shown), index, pendingPosition)>>,
                       focus |-> index]
                 ELSE stay
            [] key = "Escape" ->
                 IF pendingPosition # NullPos
                 THEN [pendingPosition |-> NullPos,
                       onReorder |-> <<Splice(IdsOf(shown), index, pendingPosition)>>,
                       focus |-> index]
                 ELSE stay
            [] key = "Tab" ->
                 IF shiftKey /\ index > 0 THEN [stay EXCEPT !.focus = index - 1]
                 ELSE IF ~shiftKey /\ index < total - 1 THEN [stay EXCEPT !.focus = index + 1]
                 ELSE stay
            [] OTHER -> stay

\* handleKeyDown(e, index): the pendingPosition it leaves, the onReorder calls
\* it makes and the card that has the focus afterwards. It does not read
\* isDisabled.
handleKeyDown(shown, pendingPosition, key, shiftKey, index) ==
  LET stay == [pendingPosition |-> pendingPosition, onReorder |-> <<>>, focus |-> index]
      total == Len(shown)
  IN IF index >= total THEN stay
     ELSE CASE key = "ArrowUp" ->
                 IF shiftKey /\ index > 0 THEN [stay EXCEPT !.pendingPosition = index - 1] ELSE stay
            [] key = "ArrowDown" ->
                 IF shiftKey /\ index < total - 1 THEN [stay EXCEPT !.pendingPosition = index + 1] ELSE stay
            [] key = "Enter" ->
                 IF pendingPosition # NullPos /\ pendingPosition # index
                 THEN [pendingPosition |-> NullPos,
                       onReorder |-> <<Splice(IdsOf(shown), index, pendingPosition)>>,
                       focus |-> index]
                 ELSE stay
            [] key = "Escape" ->
                 IF pendingPosition # NullPos THEN [stay EXCEPT !.pendingPosition = NullPos] ELSE stay
            [] key = "Tab" ->
                 IF shiftKey /\ index > 0 THEN [stay EXCEPT !.focus = index - 1]
                 ELSE IF ~shiftKey /\ index < total - 1 THEN [stay EXCEPT !.focus = index + 1]
                 ELSE stay
            [] OTHER -> stay

\* A key goes down on the focused card of the surface of listType.
KeyDown(t, listType, key, shiftKey) ==
  /\ t \in open /\ ~isLoading[t]
  /\ surface.focus.listType = listType
  /\ LET shown == Shown(t, listType)
         index == surface.focus.index
         pendingPosition == surface.pendingPosition[listType]
         done == handleKeyDown(shown, pendingPosition, key, shiftKey, index)
         pressed == [key |-> key, shiftKey |-> shiftKey]
     IN /\ done.pendingPosition = NullPos \/ Len(surface.keys[listType]) < MaxKeys
        /\ IF done.onReorder # <<>>
           THEN /\ QueueRoom
                /\ IF listType = "active" THEN handleReorderActive(t, done.onReorder[1])
                   ELSE handleReorderCompleted(t, done.onReorder[1])
           ELSE /\ UNCHANGED <<ls, online, now, today, nextId, goals, completedGoals, isLoading,
                               open, inbox, call, full, notifier, effects>>
                /\ last' = Other
        /\ surface' =
             [surface EXCEPT
                !.pendingPosition[listType] = done.pendingPosition,
                !.focus = [listType |-> listType, index |-> done.focus],
                !.selectedId[listType] =
                   IF done.pendingPosition = NullPos THEN 0
                   ELSE IF pendingPosition = NullPos THEN shown[index + 1].id
                   ELSE @,
                !.keys[listType] =
                   IF done.pendingPosition = NullPos THEN <<>> ELSE Append(@, pressed),
                !.event = [key |-> key, shiftKey |-> shiftKey, listType |-> listType,
                           index |-> index, pending |-> pendingPosition]]

\* handleFocus: a card of a surface with no move pending gets the focus.
FocusGoal(t, listType, index) ==
  /\ t \in open /\ ~isLoading[t]
  /\ index < Len(Shown(t, listType))
  /\ surface.focus # [listType |-> listType, index |-> index]
  /\ \A lt \in ListTypes : surface.pendingPosition[lt] = NullPos
  /\ surface' = [surface EXCEPT !.focus = [listType |-> listType, index |-> index],
                                !.event = NoEvent]
  /\ last' = Other
  /\ UNCHANGED <<ls, online, now, today, nextId, goals, completedGoals, isLoading, open, inbox,
                 call, full, notifier, effects>>

\* The page is reloaded: state is reset, the mount effect loads both
\* collections, and the save effects run once isLoading is false.
Reload(t) ==
  /\ t \in open
  /\ LET activeWithOrder == loadActiveGoals(ls)
         completedWithOrder == loadCompletedGoals(ls)
         writes == SaveGoalsEffect(FALSE, activeWithOrder) \o SaveCompletedEffect(FALSE, completedWithOrder)
     IN /\ goals' = [goals EXCEPT ![t] = activeWithOrder]
        /\ completedGoals' = [completedGoals EXCEPT ![t] = completedWithOrder]
        /\ ls' = ApplyWrites(ls, Caught(writes))
        /\ inbox' = [u \in Tabs |->
                       IF u = t THEN <<>>
                       ELSE IF u \in open THEN inbox[u] \o StorageEvents(ls, Caught(writes))
                       ELSE inbox[u]]
  /\ isLoading' = [isLoading EXCEPT ![t] = FALSE]
  /\ UNCHANGED <<online, now, today, nextId, open, call, full, surface, notifier, effects>>
  /\ last' = Other

\* ------------------------------------------------------------ crossTabSync
NotHeard == [callbacks |-> <<>>, overrides |-> <<>>]

\* Mutation: the listener only looks at the active key.
storageListenerActiveOnly(event) ==
  IF event.key = "doit_goals" /\ event.newValue.kind = "json"
  THEN [callbacks |-> <<[listType |-> "active", goals |-> event.newValue.val]>>,
        overrides |-> <<[listType |-> "active", goals |-> event.newValue.val, from |-> "cross-tab"]>>]
  ELSE NotHeard

\* Mutation: the listener does not look at the key.
storageListenerAnyKey(event) ==
  IF event.newValue.kind = "garbage" THEN NotHeard
  ELSE LET listType == IF event.key = "doit_goals" THEN "active" ELSE "completed"
           newValue == IF event.newValue.kind \in {"null", "empty"} THEN <<>>
                       ELSE IF event.newValue.kind = "notarray" THEN "object"
                       ELSE event.newValue.val
       IN [callbacks |-> <<[listType |-> listType, goals |-> newValue]>>,
           overrides |-> <<[listType |-> listType, goals |-> newValue, from |-> "cross-tab"]>>]

\* storageListener: the callbacks it makes and the reorder-override events it
\* dispatches. JSON.parse throws on text it rejects and the catch only logs.
storageListener(event) ==
  IF event.key = "doit_goals" \/ event.key = "doit_completed"
  THEN LET listType == IF event.key = "doit_goals" THEN "active" ELSE "completed"
       IN IF event.newValue.kind = "garbage" THEN NotHeard
          ELSE LET newValue == IF event.newValue.kind \in {"null", "empty"} THEN <<>>
                               ELSE IF event.newValue.kind = "notarray" THEN "object"
                               ELSE event.newValue.val
               IN [callbacks |-> <<[listType |-> listType, goals |-> newValue]>>,
                   overrides |-> <<[listType |-> listType, goals |-> newValue, from |-> "cross-tab"]>>]
  ELSE NotHeard

\* The callback page.tsx registers: both collections are read again.
onSyncEvent(store) ==
  [goals |-> loadActiveGoals(store), completedGoals |-> loadCompletedGoals(store)]

Heard(t, event, heard) ==
  [op |-> "storage", listType |-> "", goalIds |-> <<>>, had |-> {}, pending |-> 0,
   tab |-> t, event |-> event, callbacks |-> heard.callbacks, overrides |-> heard.overrides]

\* The browser dispatches the oldest undelivered storage event to tab t: the
\* listener, the callback for each event it emits, then the save effects.
Deliver(t) ==
  /\ t \in open /\ inbox[t] # <<>>
  /\ LET event == Head(inbox[t])
         heard == storageListener(event)
     IN /\ IF heard.callbacks # <<>>
           THEN LET updated == onSyncEvent(ls)
                    writes == Caught(SaveGoalsEffect(isLoading[t], updated.goals)
                                     \o SaveCompletedEffect(isLoading[t], updated.completedGoals))
                IN /\ goals' = [goals EXCEPT ![t] = updated.goals]
                   /\ completedGoals' = [completedGoals EXCEPT ![t] = updated.completedGoals]
                   /\ ls' = ApplyWrites(ls, writes)
                   /\ inbox' = [u \in Tabs |->
                                  IF u = t THEN Tail(inbox[t])
                                  ELSE IF u \in open THEN inbox[u] \o StorageEvents(ls, writes)
                                  ELSE inbox[u]]
           ELSE /\ UNCHANGED <<ls, goals, completedGoals>>
                /\ inbox' = [inbox EXCEPT ![t] = Tail(inbox[t])]
        /\ last' = Heard(t, event, heard)
  /\ UNCHANGED <<online, now, today, nextId, isLoading, open, call, full, surface, notifier, effects>>

\* navigator.onLine turns false; the offline listener only logs.
GoOffline ==
  /\ online /\ online' = FALSE
  /\ UNCHANGED <<ls, now, today, nextId, goals, completedGoals, isLoading, open, inbox, call, full, surface, notifier, effects>>
  /\ last' = Other

\* navigator.onLine turns true and the online listener of every open tab runs
\* syncPendingReorders.
GoOnline ==
  /\ ~online /\ online' = TRUE
  /\ IF open = {} THEN UNCHANGED <<ls, inbox>>
     ELSE Commit(CHOOSE t \in open : \A u \in open : t <= u, syncPendingReorders(ls))
  /\ UNCHANGED <<now, today, nextId, goals, completedGoals, isLoading, open, call, full, surface, notifier, effects>>
  /\ last' = Did("online", "", <<>>, {}, Len(getPendingReorders(ls)))

\* Midnight passes.
NextDay ==
  /\ today < MaxDay /\ today' = today + 1
  /\ UNCHANGED <<ls, online, now, nextId, goals, completedGoals, isLoading, open, inbox, call, full, surface, notifier, effects>>
  /\ last' = Other

Next ==
  \/ \E title \in Titles, endDate \in 0..MaxDay : AddGoal(1, title, endDate)
  \/ \E id \in 1..MaxGoals : CheckGoal(1, id)
  \/ \E id \in 1..MaxGoals : RestoreGoal(1, id)
  \/ \E id \in 1..MaxGoals, isCompleted \in BOOLEAN : DeleteGoal(1, id, isCompleted)
  \/ \E oldIndex, newIndex \in 0..(MaxGoals - 1) : DropActive(1, oldIndex, newIndex)
  \/ \E oldIndex, newIndex \in 0..(MaxGoals - 1) : DropCompleted(1, oldIndex, newIndex)
  \/ Reload(1)
  \/ GoOffline
  \/ GoOnline
  \/ NextDay

Spec == Init /\ [][Next]_vars

\* ------------------------------------------ the Goal Store driven directly
\* A persisted goal as an earlier session left it.
StoredGoal(id, order, done) ==
  [id |-> id, title |-> "run", endDate |-> Iso(id % 2), createdAt |-> Iso(id),
   completedAt |-> IF done THEN Iso(id + MaxGoals) ELSE Missing,
   order |-> order, syncStatus |-> "missing"]

\* order values as the controller leaves them: following the position,
\* against it, or the value each goal had when it was created.
OrderPatterns == {"dense", "reversed", "stale"}

PatternOrder(pattern, id, pos, len) ==
  IF pattern = "dense" THEN pos - 1
  ELSE IF pattern = "reversed" THEN len - pos
  ELSE IF pattern = "legacy" THEN NoOrder
  ELSE id - 1

\* ids first..last in that sequence.
StoredCollection(first, lastId, pattern, done) ==
  [pos \in 1..(lastId - first + 1) |->
     StoredGoal(first + pos - 1, PatternOrder(pattern, first + pos - 1, pos, lastId - first + 1), done)]

LegacyOp == [timestamp |-> 0, listType |-> "completed", goalIds |-> <<>>, syncStatus |-> "pending"]

\* Id sequences without repetition over the ids in use and one unknown id.
StoreIdSeqs ==
  {s \in UNION {[1..n -> 1..(MaxGoals + 1)] : n \in 0..MaxIdsLen} :
     \A i, j \in 1..Len(s) : i # j => s[i] # s[j]}

InitStore ==
  /\ \E n \in 0..MaxGoals, pattern \in OrderPatterns, queue \in {Null, Json(<<LegacyOp>>)} :
       ls = [k \in Keys |->
               IF k = ACTIVE_GOALS_KEY THEN Json(StoredCollection(1, n, pattern, FALSE))
               ELSE IF k = COMPLETED_GOALS_KEY THEN Json(StoredCollection(n + 1, MaxGoals, pattern, TRUE))
               ELSE queue]
  /\ online \in BOOLEAN
  /\ now = 0
  /\ today = 0
  /\ nextId = MaxGoals + 1
  /\ goals = [t \in Tabs |-> <<>>]
  /\ completedGoals = [t \in Tabs |-> <<>>]
  /\ isLoading = [t \in Tabs |-> TRUE]
  /\ open = {}
  /\ inbox = [t \in Tabs |-> <<>>]
  /\ call \in [goalIds : StoreIdSeqs, listType : ListTypes]
  /\ last = Other
  /\ full = FALSE
  /\ surface = IdleSurface
  /\ notifier = NoNotifier
  /\ effects = [t \in Tabs |-> FALSE]

\* reorderGoals(call.goalIds, call.listType) called from outside the controller.
CallReorderGoals ==
  /\ online \/ Len(getPendingReorders(ls)) < MaxStoreQueue
  /\ ls' = ApplyWrites(ls, Caught(reorderGoals(ls, call.goalIds, call.listType)))
  /\ last' = Did("reorder", call.listType, call.goalIds,
                 IdSet(getGoalsOrdered(ls, call.listType)), Len(getPendingReorders(ls)))
  /\ UNCHANGED <<online, now, today, nextId, goals, completedGoals, isLoading, open, inbox, call, full, surface, notifier, effects>>

NextStore ==
  \/ CallReorderGoals
  \/ GoOffline
  \/ GoOnline

SpecStore == InitStore /\ [][NextStore]_vars

\* moveGoal(goalId, newPosition, listType) called from outside the controller
\* on a stored session.
InitMove ==
  /\ \E n \in 0..MaxGoals, pattern \in OrderPatterns :
       ls = [k \in Keys |->
               IF k = ACTIVE_GOALS_KEY THEN Json(StoredCollection(1, n, pattern, FALSE))
               ELSE IF k = COMPLETED_GOALS_KEY THEN Json(StoredCollection(n + 1, MaxGoals, pattern, TRUE))
               ELSE Null]
  /\ online = TRUE
  /\ now = 0
  /\ today = 0
  /\ nextId = MaxGoals + 1
  /\ goals = [t \in Tabs |-> <<>>]
  /\ completedGoals = [t \in Tabs |-> <<>>]
  /\ isLoading = [t \in Tabs |-> TRUE]
  /\ open = {}
  /\ inbox = [t \in Tabs |-> <<>>]
  /\ call = NoCall
  /\ last = Other
  /\ full = FALSE
  /\ surface = IdleSurface
  /\ notifier = NoNotifier
  /\ effects = [t \in Tabs |-> FALSE]

Moved(listType, goalId, newPosition, from, pending) ==
  [op |-> "move", listType |-> listType, goalIds |-> <<>>, had |-> {}, pending |-> pending,
   goalId |-> goalId, newPosition |-> newPosition, from |-> from]

CallMoveGoal(goalId, newPosition, listType) ==
  /\ QueueRoom
  /\ ls' = ApplyWrites(ls, Caught(moveGoal(ls, goalId, newPosition, listType)))
  /\ last' = Moved(listType, goalId, newPosition,
                   findIndex(getGoalsOrdered(ls, listType), goalId), Len(getPendingReorders(ls)))
  /\ UNCHANGED <<online, now, today, nextId, goals, completedGoals, isLoading, open, inbox, call,
                 full, surface, notifier, effects>>

NextMove ==
  \/ \E goalId \in 1..(MaxGoals + 1), newPosition \in 0..(MaxGoals - 1), listType \in ListTypes :
       CallMoveGoal(goalId, newPosition, listType)
  \/ GoOffline

SpecMove == InitMove /\ [][NextMove]_vars

\* ------------------------------------------------------------- two tabs
\* Both tabs were opened on an empty storage.
InitTabs ==
  /\ ls = [k \in Keys |-> IF k = REORDER_QUEUE_KEY THEN Null ELSE Json(<<>>)]
  /\ online = TRUE
  /\ now = 0
  /\ today = 0
  /\ nextId = 1
  /\ goals = [t \in Tabs |-> <<>>]
  /\ completedGoals = [t \in Tabs |-> <<>>]
  /\ isLoading = [t \in Tabs |-> FALSE]
  /\ open = Tabs
  /\ inbox = [t \in Tabs |-> <<>>]
  /\ call = NoCall
  /\ last = Other
  /\ full = FALSE
  /\ surface = IdleSurface
  /\ notifier = Subscribed
  /\ effects = [t \in Tabs |-> FALSE]

\* The other tabs have handled all but a few of their storage events.
InboxRoom(t) == \A u \in Tabs \ {t} : Len(inbox[u]) < MaxInbox

NextTabs ==
  \E t \in Tabs :
    \/ \E title \in Titles :
         /\ nextId <= MaxTabGoals /\ now < MaxTabNow /\ Len(goals[t]) < MaxTabLen
         /\ InboxRoom(t) /\ AddGoal(t, title, 0)
    \/ \E id \in 1..MaxTabGoals :
         /\ now < MaxTabNow /\ Len(completedGoals[t]) < MaxTabLen
         /\ InboxRoom(t) /\ CheckGoal(t, id)
    \/ \E id \in 1..MaxTabGoals :
         /\ Len(goals[t]) < MaxTabLen
         /\ InboxRoom(t) /\ RestoreGoal(t, id)
    \/ \E id \in 1..MaxTabGoals, isCompleted \in BOOLEAN : InboxRoom(t) /\ DeleteGoal(t, id, isCompleted)
    \/ \E oldIndex, newIndex \in 0..(MaxTabGoals - 1) : InboxRoom(t) /\ DropActive(t, oldIndex, newIndex)
    \/ \E oldIndex, newIndex \in 0..(MaxTabGoals - 1) : InboxRoom(t) /\ DropCompleted(t, oldIndex, newIndex)
    \/ Deliver(t)

SpecTabs == InitTabs /\ [][NextTabs]_vars

\* ------------------------------------------ a tab that only observes
\* The storage listener runs outside React's event system: the callback's
\* setGoals and setCompletedGoals schedule a render, and the save effects of
\* that render run in a later task. The other tab writes from its own process
\* and can do so in between.
HearStorage(t) ==
  /\ t \in open /\ inbox[t] # <<>>
  /\ LET event == Head(inbox[t])
         heard == storageListener(event)
     IN /\ IF heard.callbacks # <<>>
           THEN LET updated == onSyncEvent(ls)
                IN /\ goals' = [goals EXCEPT ![t] = updated.goals]
                   /\ completedGoals' = [completedGoals EXCEPT ![t] = updated.completedGoals]
                   /\ effects' = [effects EXCEPT ![t] = TRUE]
           ELSE UNCHANGED <<goals, completedGoals, effects>>
        /\ last' = Heard(t, event, heard)
  /\ inbox' = [inbox EXCEPT ![t] = Tail(inbox[t])]
  /\ UNCHANGED <<ls, online, now, today, nextId, isLoading, open, call, full, surface, notifier>>

Saved(t) ==
  [op |-> "effects", listType |-> "", goalIds |-> <<>>, had |-> {}, pending |-> 0, tab |-> t]

\* The save effects of goals and completedGoals run in tab t.
RunSaveEffects(t) ==
  /\ t \in open /\ effects[t]
  /\ Commit(t, SaveGoalsEffect(isLoading[t], goals[t])
                \o SaveCompletedEffect(isLoading[t], completedGoals[t]))
  /\ effects' = [effects EXCEPT ![t] = FALSE]
  /\ last' = Saved(t)
  /\ UNCHANGED <<online, now, today, nextId, goals, completedGoals, isLoading, open, call, full,
                 surface, notifier>>

\* The user works in tab 1, once it has rendered what it heard; tab 2 is
\* open on the same storage and nobody touches it.
NextObserver ==
  \/ \E title \in Titles :
       /\ nextId <= MaxTabGoals /\ now < MaxTabNow /\ Len(goals[1]) < MaxTabLen
       /\ ~effects[1] /\ InboxRoom(1) /\ AddGoal(1, title, 0)
  \/ \E id \in 1..MaxTabGoals :
       /\ now < MaxTabNow /\ Len(completedGoals[1]) < MaxTabLen
       /\ ~effects[1] /\ InboxRoom(1) /\ CheckGoal(1, id)
  \/ \E id \in 1..MaxTabGoals, isCompleted \in BOOLEAN :
       ~effects[1] /\ InboxRoom(1) /\ DeleteGoal(1, id, isCompleted)
  \/ \E t \in Tabs : HearStorage(t)
  \/ \E t \in Tabs : InboxRoom(t) /\ RunSaveEffects(t)

SpecObserver == InitTabs /\ [][NextObserver]_vars

\* ---------------------------------------------- the surfaces of one tab
\* Tab 1 shows a stored session, with one active goal or with all of them
\* active; the surfaces are enabled or disabled.
InitSurface ==
  /\ \E n \in {1, MaxGoals} :
       /\ ls = [k \in Keys |->
                  IF k = ACTIVE_GOALS_KEY THEN Json(StoredCollection(1, n, "dense", FALSE))
                  ELSE IF k = COMPLETED_GOALS_KEY THEN Json(StoredCollection(n + 1, MaxGoals, "dense", TRUE))
                  ELSE Null]
       /\ goals = [t \in Tabs |-> IF t = 1 THEN loadActiveGoals(ls) ELSE <<>>]
       /\ completedGoals = [t \in Tabs |-> IF t = 1 THEN loadCompletedGoals(ls) ELSE <<>>]
  /\ online \in BOOLEAN
  /\ now = 0
  /\ today = 0
  /\ nextId = MaxGoals + 1
  /\ isLoading = [t \in Tabs |-> t # 1]
  /\ open = {1}
  /\ inbox = [t \in Tabs |-> <<>>]
  /\ call = NoCall
  /\ last = Other
  /\ full = FALSE
  /\ \E disabled \in BOOLEAN :
       surface = [IdleSurface EXCEPT !.isDisabled = [lt \in ListTypes |-> disabled]]
  /\ notifier = Subscribed
  /\ effects = [t \in Tabs |-> FALSE]

NextSurface ==
  \/ \E listType \in ListTypes, index \in 0..(MaxGoals - 1) : FocusGoal(1, listType, index)
  \/ \E listType \in ListTypes, key \in KeyNames, shiftKey \in BOOLEAN :
       KeyDown(1, listType, key, shiftKey)
  \/ \E oldIndex, newIndex \in 0..(MaxGoals - 1) : DropActive(1, oldIndex, newIndex)
  \/ \E oldIndex, newIndex \in 0..(MaxGoals - 1) : DropCompleted(1, oldIndex, newIndex)

SpecSurface == InitSurface /\ [][NextSurface]_vars

\* A surface whose collection shrinks under it: every goal is active, the
\* clock was read once for each, and goals are completed and deleted by their
\* own buttons while the surfaces are in use. The component keeps
\* pendingPosition across the render of a shorter list.
InitShrink ==
  /\ ls = [k \in Keys |->
             IF k = ACTIVE_GOALS_KEY THEN Json(StoredCollection(1, MaxGoals, "dense", FALSE))
             ELSE IF k = COMPLETED_GOALS_KEY THEN Json(<<>>)
             ELSE Null]
  /\ goals = [t \in Tabs |-> IF t = 1 THEN loadActiveGoals(ls) ELSE <<>>]
  /\ completedGoals = [t \in Tabs |-> <<>>]
  /\ online = TRUE
  /\ now = MaxGoals
  /\ today = 0
  /\ nextId = MaxGoals + 1
  /\ isLoading = [t \in Tabs |-> t # 1]
  /\ open = {1}
  /\ inbox = [t \in Tabs |-> <<>>]
  /\ call = NoCall
  /\ last = Other
  /\ full = FALSE
  /\ surface = IdleSurface
  /\ notifier = Subscribed
  /\ effects = [t \in Tabs |-> FALSE]

NextShrink ==
  \/ \E listType \in ListTypes, index \in 0..(MaxGoals - 1) : FocusGoal(1, listType, index)
  \/ \E listType \in ListTypes, key \in KeyNames, shiftKey \in BOOLEAN :
       KeyDown(1, listType, key, shiftKey)
  \/ \E id \in 1..MaxGoals : CheckGoal(1, id)
  \/ \E id \in 1..MaxGoals, isCompleted \in BOOLEAN : DeleteGoal(1, id, isCompleted)

SpecShrink == InitShrink /\ [][NextShrink]_vars

\* ------------------------------------- the reorder handlers driven directly
\* Tab 1 shows a stored session and a reorder handler is about to be called
\* with an id sequence over the ids of both collections and one unknown id.
InitHandler ==
  /\ \E n \in 0..MaxGoals :
       /\ ls = [k \in Keys |->
                  IF k = ACTIVE_GOALS_KEY THEN Json(StoredCollection(1, n, "dense", FALSE))
                  ELSE IF k = COMPLETED_GOALS_KEY THEN Json(StoredCollection(n + 1, MaxGoals, "dense", TRUE))
                  ELSE Null]
       /\ goals = [t \in Tabs |-> IF t = 1 THEN loadActiveGoals(ls) ELSE <<>>]
       /\ completedGoals = [t \in Tabs |-> IF t = 1 THEN loadCompletedGoals(ls) ELSE <<>>]
  /\ online = TRUE
  /\ now = 0
  /\ today = 0
  /\ nextId = MaxGoals + 1
  /\ isLoading = [t \in Tabs |-> t # 1]
  /\ open = {1}
  /\ inbox = [t \in Tabs |-> <<>>]
  /\ call \in [goalIds : StoreIdSeqs, listType : ListTypes]
  /\ last = Other
  /\ full = FALSE
  /\ surface = IdleSurface
  /\ notifier = Subscribed
  /\ effects = [t \in Tabs |-> FALSE]

\* onReorder(call.goalIds) of the surface of call.listType.
CallOnReorder ==
  /\ QueueRoom
  /\ IF call.listType = "active" THEN handleReorderActive(1, call.goalIds)
     ELSE handleReorderCompleted(1, call.goalIds)
  /\ UNCHANGED surface

NextHandler ==
  \/ CallOnReorder
  \/ CallReorderGoals
  \/ GoOffline
  \/ GoOnline

SpecHandler == InitHandler /\ [][NextHandler]_vars

\* ------------------------------------------------ storage that fills up
\* The quota is reached: from now on setItem throws.
StorageFills ==
  /\ ~full /\ full' = TRUE
  /\ last' = Other
  /\ UNCHANGED <<ls, online, now, today, nextId, goals, completedGoals, isLoading, open, inbox,
                 call, surface, notifier, effects>>

\* Another origin-wide consumer frees space: setItem works again.
StorageFrees ==
  /\ full /\ full' = FALSE
  /\ last' = Other
  /\ UNCHANGED <<ls, online, now, today, nextId, goals, completedGoals, isLoading, open, inbox,
                 call, surface, notifier, effects>>

NextQuota ==
  \/ \E title \in Titles : nextId <= MaxTabGoals /\ now < MaxTabNow /\ AddGoal(1, title, 0)
  \/ \E id \in 1..MaxTabGoals : now < MaxTabNow /\ CheckGoal(1, id)
  \/ \E id \in 1..MaxTabGoals : RestoreGoal(1, id)
  \/ \E id \in 1..MaxTabGoals, isCompleted \in BOOLEAN : DeleteGoal(1, id, isCompleted)
  \/ \E oldIndex, newIndex \in 0..(MaxTabGoals - 1) : DropActive(1, oldIndex, newIndex)
  \/ \E oldIndex, newIndex \in 0..(MaxTabGoals - 1) : DropCompleted(1, oldIndex, newIndex)
  \/ GoOffline
  \/ GoOnline
  \/ StorageFills
  \/ StorageFrees

SpecQuota == Init /\ [][NextQuota]_vars

\* ------------------------------------------- storage with a foreign writer
\* Another writer of the same origin (an older build, the developer tools)
\* changes, removes or damages the values; tab 1 is open on the storage.
ForeignValues(key) ==
  IF key = REORDER_QUEUE_KEY THEN {Null, Garbage(<<>>)}
  ELSE {Null, Empty, NotArray,
        Garbage(StoredCollection(1, 1, "dense", key = COMPLETED_GOALS_KEY)),
        Json(StoredCollection(1, 2, "reversed", key = COMPLETED_GOALS_KEY))}

InitForeign ==
  /\ \E n \in 0..MaxGoals :
       /\ ls = [k \in Keys |->
                  IF k = ACTIVE_GOALS_KEY THEN Json(StoredCollection(1, n, "stale", FALSE))
                  ELSE IF k = COMPLETED_GOALS_KEY THEN Json(StoredCollection(n + 1, MaxGoals, "stale", TRUE))
                  ELSE Null]
       /\ goals = [t \in Tabs |-> IF t = 1 THEN loadActiveGoals(ls) ELSE <<>>]
       /\ completedGoals = [t \in Tabs |-> IF t = 1 THEN loadCompletedGoals(ls) ELSE <<>>]
  /\ online = TRUE
  /\ now = 0
  /\ today = 0
  /\ nextId = MaxGoals + 1
  /\ isLoading = [t \in Tabs |-> t # 1]
  /\ open = {1}
  /\ inbox = [t \in Tabs |-> <<>>]
  /\ call = NoCall
  /\ last = Other
  /\ full = FALSE
  /\ surface = IdleSurface
  /\ notifier = Subscribed
  /\ effects = [t \in Tabs |-> FALSE]

\* The foreign writer sets or removes one of the application's keys.
ForeignWrite(key, value) ==
  /\ \A t \in open : Len(inbox[t]) < MaxForeignInbox
  /\ ls[key] # value
  /\ ls' = [ls EXCEPT ![key] = value]
  /\ inbox' = [t \in Tabs |->
                 IF t \in open THEN Append(inbox[t], [key |-> key, newValue |-> value])
                 ELSE inbox[t]]
  /\ last' = Other
  /\ UNCHANGED <<online, now, today, nextId, goals, completedGoals, isLoading, open, call, full, surface, notifier, effects>>

\* The foreign writer sets a key that is none of the application's.
ForeignOtherKey(value) ==
  /\ \A t \in open : Len(inbox[t]) < MaxForeignInbox
  /\ inbox' = [t \in Tabs |->
                 IF t \in open THEN Append(inbox[t], [key |-> "theme", newValue |-> value])
                 ELSE inbox[t]]
  /\ last' = Other
  /\ UNCHANGED <<ls, online, now, today, nextId, goals, completedGoals, isLoading, open, call, full, surface, notifier, effects>>

Loaded(listType, result) ==
  [op |-> "load", listType |-> listType, goalIds |-> <<>>, had |-> {}, pending |-> 0,
   result |-> result]

\* getGoalsOrdered(listType) called from outside the controller.
CallGetGoalsOrdered(listType) ==
  /\ last' = Loaded(listType, getGoalsOrdered(ls, listType))
  /\ UNCHANGED <<ls, online, now, today, nextId, goals, completedGoals, isLoading, open, inbox,
                 call, full, surface, notifier, effects>>

NextForeign ==
  \/ \E key \in Keys : \E value \in ForeignValues(key) : ForeignWrite(key, value)
  \/ \E value \in {Json(<<>>), Garbage(<<>>)} : ForeignOtherKey(value)
  \/ \E listType \in ListTypes : CallGetGoalsOrdered(listType)
  \/ Deliver(1)
  \/ Reload(1)

SpecForeign == InitForeign /\ [][NextForeign]_vars

\* ------------------------------------ initialize and cleanup called again
\* initializeCrossTabSync(callback): a new listener closure is made, stored in
\* storageListener and added to the window; the one stored before is not
\* removed.
initializeCrossTabSync(n) ==
  [registered |-> n.registered \cup {n.made + 1},
   storageListener |-> n.made + 1,
   syncCallback |-> TRUE,
   made |-> n.made + 1]

\* cleanupCrossTabSync(): removes the listener storageListener refers to.
cleanupCrossTabSync(n) ==
  IF n.storageListener # 0
  THEN [registered |-> n.registered \ {n.storageListener},
        storageListener |-> 0,
        syncCallback |-> FALSE,
        made |-> n.made]
  ELSE n

Called(op) ==
  [op |-> op, listType |-> "", goalIds |-> <<>>, had |-> {}, pending |-> 0]

\* initializeCrossTabSync called in the window of tab 1.
CallInitializeCrossTabSync ==
  /\ notifier.made < MaxInits
  /\ notifier' = initializeCrossTabSync(notifier)
  /\ last' = Called("initialize")
  /\ UNCHANGED <<ls, online, now, today, nextId, goals, completedGoals, isLoading, open, inbox,
                 call, full, surface, effects>>

\* initializeGoalStorage(onSyncEvent) called again in the window of tab 1 (the
\* stored goals all have an order, so migrateGoalsWithOrder writes nothing);
\* without a callback the notifier is left alone.
CallInitializeGoalStorage(withCallback) ==
  /\ notifier.made < MaxInits
  /\ notifier' = IF withCallback THEN initializeCrossTabSync(notifier) ELSE notifier
  /\ last' = Called("initialize")
  /\ UNCHANGED <<ls, online, now, today, nextId, goals, completedGoals, isLoading, open, inbox,
                 call, full, surface, effects>>

CallCleanupCrossTabSync ==
  /\ notifier' = cleanupCrossTabSync(notifier)
  /\ last' = Called("cleanup")
  /\ UNCHANGED <<ls, online, now, today, nextId, goals, completedGoals, isLoading, open, inbox,
                 call, full, surface, effects>>

RECURSIVE Times(_, _)
Times(s, n) == IF n = 0 THEN <<>> ELSE s \o Times(s, n - 1)

\* The browser dispatches the oldest undelivered storage event to every
\* listener on the window of tab 1; each calls syncCallback if it is set and
\* raises the override event; then the save effects run.
Dispatch ==
  /\ 1 \in open /\ inbox[1] # <<>>
  /\ LET event == Head(inbox[1])
         each == storageListener(event)
         n == Cardinality(notifier.registered)
         heard == [callbacks |-> IF notifier.syncCallback THEN Times(each.callbacks, n) ELSE <<>>,
                   overrides |-> Times(each.overrides, n)]
     IN /\ IF heard.callbacks # <<>>
           THEN LET updated == onSyncEvent(ls)
                    writes == Caught(SaveGoalsEffect(isLoading[1], updated.goals)
                                     \o SaveCompletedEffect(isLoading[1], updated.completedGoals))
                IN /\ goals' = [goals EXCEPT ![1] = updated.goals]
                   /\ completedGoals' = [completedGoals EXCEPT ![1] = updated.completedGoals]
                   /\ ls' = ApplyWrites(ls, writes)
                   /\ inbox' = [u \in Tabs |->
                                  IF u = 1 THEN Tail(inbox[1])
                                  ELSE IF u \in open THEN inbox[u] \o StorageEvents(ls, writes)
                                  ELSE inbox[u]]
           ELSE /\ UNCHANGED <<ls, goals, completedGoals>>
                /\ inbox' = [inbox EXCEPT ![1] = Tail(inbox[1])]
        /\ last' = Heard(1, event, heard)
  /\ UNCHANGED <<online, now, today, nextId, isLoading, open, call, full, surface, notifier, effects>>

NextNotifier ==
  \/ CallInitializeCrossTabSync
  \/ \E withCallback \in BOOLEAN : CallInitializeGoalStorage(withCallback)
  \/ CallCleanupCrossTabSync
  \/ \E key \in {ACTIVE_GOALS_KEY, COMPLETED_GOALS_KEY} :
       \E value \in ForeignValues(key) : ForeignWrite(key, value)
  \/ Dispatch

SpecNotifier == InitForeign /\ [][NextNotifier]_vars

\* --------------------------------------------- the page opens on a session
\* goals.map((g, i) => ({ ...g, order: g.order !== undefined ? g.order : i }))
WithOrder(gs) ==
  [i \in 1..Len(gs) |-> IF gs[i].order # NoOrder THEN gs[i] ELSE [gs[i] EXCEPT !.order = i - 1]]

\* migrateGoalsWithOrder: a collection is saved when some goal got an order.
migrateGoalsWithOrder(store) ==
  LET activeGoals == loadActiveGoals(store)
      completed == loadCompletedGoals(store)
      migratedActive == WithOrder(activeGoals)
      migratedCompleted == WithOrder(completed)
  IN (IF migratedActive # activeGoals THEN <<saveActiveGoals(migratedActive)>> ELSE <<>>)
     \o (IF migratedCompleted # completed THEN <<saveCompletedGoals(migratedCompleted)>> ELSE <<>>)

\* What an earlier session, or an older build, left under a collection key:
\* nothing, JSON text that is no array, or a collection, whose goals of an
\* older build have no order.
MountPatterns == OrderPatterns \cup {"legacy"}

Mounted(t, whileLoading, migrated) ==
  [op |-> "mount", listType |-> "", goalIds |-> <<>>, had |-> {}, pending |-> 0,
   tab |-> t, whileLoading |-> whileLoading, migrated |-> migrated]

InitMount ==
  /\ \E n \in 0..MaxGoals, pattern \in MountPatterns, queue \in {Null, Json(<<LegacyOp>>)},
        absent \in {Null, NotArray, Json(<<>>)} :
       ls = [k \in Keys |->
               IF k = ACTIVE_GOALS_KEY
               THEN IF n = 0 THEN absent ELSE Json(StoredCollection(1, n, pattern, FALSE))
               ELSE IF k = COMPLETED_GOALS_KEY
               THEN IF n = MaxGoals THEN absent
                    ELSE Json(StoredCollection(n + 1, MaxGoals, pattern, TRUE))
               ELSE queue]
  /\ online \in BOOLEAN
  /\ now = 0
  /\ today = 0
  /\ nextId = MaxGoals + 1
  /\ goals = [t \in Tabs |-> <<>>]
  /\ completedGoals = [t \in Tabs |-> <<>>]
  /\ isLoading = [t \in Tabs |-> TRUE]
  /\ open = {}
  /\ inbox = [t \in Tabs |-> <<>>]
  /\ call = NoCall
  /\ last = Other
  /\ full = FALSE
  /\ surface = IdleSurface
  /\ notifier = NoNotifier
  /\ effects = [t \in Tabs |-> FALSE]

\* The page opens in tab 1. The effects of the first render run in the order
\* they are declared: the mount effect loads both collections, gives every
\* goal an order, calls initializeGoalStorage (migration, notifier, online and
\* offline listeners) and clears isLoading; then the two save effects run with
\* the isLoading and the empty lists of that first render. The save effects
\* of the next render write what was loaded.
Mount ==
  /\ 1 \notin open
  /\ LET activeWithOrder == WithOrder(loadActiveGoals(ls))
         completedWithOrder == WithOrder(loadCompletedGoals(ls))
         whileLoading == SaveGoalsEffect(TRUE, <<>>) \o SaveCompletedEffect(TRUE, <<>>)
         migration == migrateGoalsWithOrder(ls)
         writes == migration \o whileLoading
                   \o SaveGoalsEffect(FALSE, activeWithOrder)
                   \o SaveCompletedEffect(FALSE, completedWithOrder)
     IN /\ goals' = [goals EXCEPT ![1] = activeWithOrder]
        /\ completedGoals' = [completedGoals EXCEPT ![1] = completedWithOrder]
        /\ Commit(1, writes)
        /\ last' = Mounted(1, whileLoading, migration # <<>>)
  /\ open' = open \cup {1}
  /\ isLoading' = [isLoading EXCEPT ![1] = FALSE]
  /\ notifier' = initializeCrossTabSync(notifier)
  /\ UNCHANGED <<online, now, today, nextId, call, full, surface, effects>>

NextMount ==
  \/ Mount
  \/ GoOffline
  \/ GoOnline

SpecMount == InitMount /\ [][NextMount]_vars

\* The browser runs the mount effect of a page it has opened.
LiveMount == SpecMount /\ WF_vars(Mount)

\* ----------------------------------------------------------------- claims
PersistedGoals(listType) == ls[getStorageKey(listType)].val
Memory(t, listType) == IF listType = "active" THEN goals[t] ELSE completedGoals[t]
Dense(gs) == {gs[i].order : i \in 1..Len(gs)} = 0..(Len(gs) - 1)
NoRepeat(gs) == Cardinality(IdSet(gs)) = Len(gs)
\* Completions so far: every add and every completion reads the clock once.
Completions == now - (nextId - 1)

\* C1: in memory and persisted, the order values of the active and of the
\* completed collection are exactly 0..n-1 after every sequence of operations.
C1_OrdersDense ==
  \A listType \in ListTypes :
    Dense(Memory(1, listType)) /\ Dense(PersistedGoals(listType))

C4_ReorderPermutation ==
  [][(/\ last'.op = "reorder"
      /\ Len(last'.goalIds) = Len(PersistedGoals(last'.listType))
      /\ Range(last'.goalIds) = IdSet(PersistedGoals(last'.listType)))
     => LET before == ls[getStorageKey(last'.listType)].val
            after == ls'[getStorageKey(last'.listType)].val
        IN /\ IdsOf(after) = last'.goalIds
           /\ \A i \in 1..Len(after) :
                /\ after[i].order = i - 1
                /\ \E j \in 1..Len(before) :
                     [after[i] EXCEPT !.order = before[j].order,
                                      !.syncStatus = before[j].syncStatus] = before[j]]_vars

\* [1,2,3] was reordered with [3,1,2]: 3 has order 0, 1 has 1, 2 has 2.
C4_Witness ==
  /\ last.op = "reorder" /\ last.listType = "active" /\ last.goalIds = <<3, 1, 2>>
  /\ last.had = {1, 2, 3}
  /\ IdsOf(PersistedGoals("active")) = <<3, 1, 2>>
  /\ \A i \in 1..3 : PersistedGoals("active")[i].order = i - 1

InMemory(id) == id \in IdSet(goals[1]) \cup IdSet(completedGoals[1])
InStorage(id) == id \in IdSet(PersistedGoals("active")) \cup IdSet(PersistedGoals("completed"))

C8_AppendOrder ==
  [][/\ (now' = now + 1 /\ Len(completedGoals'[1]) = Len(completedGoals[1]) + 1)
        => completedGoals'[1][Len(completedGoals'[1])].order = Len(completedGoals[1])
     /\ (now' = now /\ Len(goals'[1]) = Len(goals[1]) + 1)
        => goals'[1][Len(goals'[1])].order = Len(goals[1])]_vars

\* C9: an offline reorder appends exactly one operation with that listType and
\* goalIds after the existing queue entries, which stay as they are; an online
\* reorder leaves the queue unchanged.
C9_QueueAppend ==
  [][last'.op = "reorder" =>
       IF online
       THEN ls'[REORDER_QUEUE_KEY] = ls[REORDER_QUEUE_KEY]
       ELSE LET before == IF ls[REORDER_QUEUE_KEY].kind = "json"
                          THEN ls[REORDER_QUEUE_KEY].val ELSE <<>>
                after == ls'[REORDER_QUEUE_KEY].val
            IN /\ ls'[REORDER_QUEUE_KEY].kind = "json"
               /\ Len(after) = Len(before) + 1
               /\ SubSeq(after, 1, Len(before)) = before
               /\ after[Len(after)].listType = last'.listType
               /\ after[Len(after)].goalIds = last'.goalIds]_vars

\* Offline, a reorder found one queued operation and left two: the old one
\* first, then its own.
C9_Witness ==
  /\ ~online /\ last.op = "reorder" /\ last.pending = 1
  /\ Len(ls[REORDER_QUEUE_KEY].val) = 2
  /\ ls[REORDER_QUEUE_KEY].val[1] = LegacyOp
  /\ ls[REORDER_QUEUE_KEY].val[2].goalIds = last.goalIds
  /\ last.goalIds # <<>>

JsonParses(value) == value.kind \in {"json", "notarray"}
JsonParsed(value) == IF value.kind = "notarray" THEN "object" ELSE value.val
CollectionKey(key) == key = ACTIVE_GOALS_KEY \/ key = COMPLETED_GOALS_KEY

\* C12 as stated: the notifier calls the callback once (listType of the key,
\* goals the parsed new value) and raises the override event if and only if
\* the key is a collection key and the new value parses; otherwise neither
\* happens and the observing tab's collections are unchanged.
C12_NotifyIffParses ==
  [][last'.op = "storage" =>
       LET event == last'.event
           listType == IF event.key = ACTIVE_GOALS_KEY THEN "active" ELSE "completed"
       IN IF CollectionKey(event.key) /\ JsonParses(event.newValue)
          THEN /\ last'.callbacks = <<[listType |-> listType, goals |-> JsonParsed(event.newValue)]>>
               /\ Len(last'.overrides) = 1
               /\ last'.overrides[1].listType = listType
               /\ last'.overrides[1].goals = JsonParsed(event.newValue)
          ELSE /\ last'.callbacks = <<>> /\ last'.overrides = <<>>
               /\ goals' = goals /\ completedGoals' = completedGoals]_vars

\* C12 amended: the callback and the override event also occur, with goals
\* the empty list, when the new value of a collection key is absent (the key
\* was removed) or the empty string; only text JSON.parse rejects is dropped.
C12_NotifyUnlessRejected ==
  [][last'.op = "storage" =>
       LET event == last'.event
           listType == IF event.key = ACTIVE_GOALS_KEY THEN "active" ELSE "completed"
           parsed == IF event.newValue.kind \in {"null", "empty"} THEN <<>>
                     ELSE JsonParsed(event.newValue)
       IN IF CollectionKey(event.key) /\ event.newValue.kind # "garbage"
          THEN /\ last'.callbacks = <<[listType |-> listType, goals |-> parsed]>>
               /\ Len(last'.overrides) = 1
               /\ last'.overrides[1].listType = listType
               /\ last'.overrides[1].goals = parsed
          ELSE /\ last'.callbacks = <<>> /\ last'.overrides = <<>>
               /\ goals' = goals /\ completedGoals' = completedGoals]_vars

\* The tab has just been told that a collection key was removed: one callback
\* with no goals, and its collection is empty now.
C12_Witness ==
  /\ last.op = "storage" /\ last.event.key = COMPLETED_GOALS_KEY
  /\ last.event.newValue.kind = "null"
  /\ Len(last.callbacks) = 1 /\ last.callbacks[1].goals = <<>>
  /\ completedGoals[1] = <<>> /\ goals[1] # <<>>

KeyStep == surface' # surface /\ surface'.event.key # "none"
\* The index (from 0) of the goal id among the goals a surface shows.
IndexIn(shown, id) == (CHOOSE i \in 1..Len(shown) : shown[i].id = id) - 1
ShiftArrowUp == [key |-> "ArrowUp", shiftKey |-> TRUE]

\* C15: while a surface is disabled no drop and no key press changes its
\* keyboard state or invokes its reorder callback.
C15_DisabledIgnored ==
  [][\A listType \in ListTypes :
       surface.isDisabled[listType] =>
         /\ surface'.pendingPosition[listType] = surface.pendingPosition[listType]
         /\ ~(last'.op = "reorder" /\ last'.listType = listType)]_vars

C17_TwoUpsMoveTwo ==
  [][\A listType \in ListTypes :
       LET shown == Shown(1, listType)
           index == surface.focus.index
       IN (KeyStep /\ surface'.event.listType = listType /\ Len(shown) >= 3 /\ index >= 2) =>
            /\ surface'.keys[listType] = <<ShiftArrowUp, ShiftArrowUp>> =>
                 surface'.pendingPosition[listType] = index - 2
            /\ (surface.keys[listType] = <<ShiftArrowUp, ShiftArrowUp>>
                /\ surface'.event.key = "Enter") =>
                 /\ last'.op = "reorder" /\ last'.listType = listType
                 /\ last'.goalIds = Splice(IdsOf(shown), index, index - 2)]_vars

\* C18: a reorder of one collection, whatever the id sequence, leaves the
\* other collection unchanged in memory and persisted and brings no goal into
\* the reordered collection.
C18_ReorderStaysInCollection ==
  [][last'.op = "reorder" =>
       LET mine == last'.listType
           memoryAfter == IF mine = "active" THEN goals'[1] ELSE completedGoals'[1]
       IN /\ IF mine = "active" THEN completedGoals' = completedGoals ELSE goals' = goals
          /\ IF mine = "active" THEN ls'[COMPLETED_GOALS_KEY] = ls[COMPLETED_GOALS_KEY]
             ELSE ls'[ACTIVE_GOALS_KEY] = ls[ACTIVE_GOALS_KEY]
          /\ IdSet(memoryAfter) \subseteq IdSet(Memory(1, mine))
          /\ IdSet(ls'[getStorageKey(mine)].val) \subseteq IdSet(PersistedGoals(mine))]_vars

\* The completed collection was reordered with an id sequence that names an
\* active goal: that goal is still active and not completed.
C18_Witness ==
  /\ last.op = "reorder" /\ last.listType = "completed"
  /\ completedGoals[1] # <<>>
  /\ \E id \in Range(last.goalIds) :
       /\ id \in IdSet(goals[1]) /\ id \in IdSet(PersistedGoals("active"))
       /\ id \notin IdSet(completedGoals[1]) /\ id \notin IdSet(PersistedGoals("completed"))

\* C20: Enter in PendingMove(selectedId, candidateIndex) invokes the reorder
\* callback with selectedId taken from its index and put at candidateIndex and
\* returns the surface to Idle, whatever Tab and Shift+Tab moved in between.
C20_EnterMovesSelected ==
  [][\A listType \in ListTypes :
       (KeyStep /\ surface'.event.key = "Enter" /\ surface'.event.listType = listType
        /\ surface.pendingPosition[listType] # NullPos) =>
         LET shown == Shown(1, listType)
             from == IndexIn(shown, surface.selectedId[listType])
         IN /\ last'.op = "reorder" /\ last'.listType = listType
            /\ last'.goalIds = Splice(IdsOf(shown), from, surface.pendingPosition[listType])
            /\ surface'.pendingPosition[listType] = NullPos]_vars

\* C19: a reorder called with the collection's current id order leaves every
\* goal's order value unchanged, and the same call made again leaves the
\* persisted collection as the first call left it.
C19_ReorderIdempotent ==
  [][last'.op = "reorder" =>
       LET listType == last'.listType
           before == getGoalsOrdered(ls, listType)
           after == getGoalsOrdered(ls', listType)
       IN /\ last'.goalIds = IdsOf(before) =>
               \A i \in 1..Len(after), j \in 1..Len(before) :
                  after[i].id = before[j].id => after[i].order = before[j].order
          /\ (last.op = "reorder" /\ last.listType = listType
              /\ last.goalIds = last'.goalIds) =>
               ls'[getStorageKey(listType)] = ls[getStorageKey(listType)]]_vars

\* C21: whenever a surface showing n goals has a pending move, its
\* candidateIndex is within 0..n-1, also after the collection shrank while
\* the move was pending; Shift+ArrowUp on the first goal and Shift+ArrowDown
\* on the last goal change nothing.
C21_CandidateInRange ==
  /\ [](\A listType \in ListTypes :
         surface.pendingPosition[listType] # NullPos =>
           /\ 0 <= surface.pendingPosition[listType]
           /\ surface.pendingPosition[listType] <= Len(Shown(1, listType)) - 1)
  /\ [][\A listType \in ListTypes :
         LET total == Len(Shown(1, listType))
             event == surface'.event
         IN (KeyStep /\ event.listType = listType /\ event.shiftKey
             /\ \/ event.key = "ArrowUp" /\ event.index = 0
                \/ event.key = "ArrowDown" /\ event.index = total - 1) =>
              /\ surface'.pendingPosition = surface.pendingPosition
              /\ surface'.focus = surface.focus
              /\ last'.op # "reorder"]_vars

\* C22: moveGoal of a goal of a dense collection of n goals to a position
\* p <= n-1 persists the collection with the goal at p, the others in their
\* previous relative order and order = index; the first goal moved to 0 and
\* the last moved to n-1 keep every order value; for a goal that is not in the
\* collection nothing is persisted and nothing is queued.
C22_MoveSingle ==
  [][last'.op = "move" =>
       \A before \in {getGoalsOrdered(ls, last'.listType)} :
       \A after \in {ls'[getStorageKey(last'.listType)].val} :
         LET goalId == last'.goalId
             p == last'.newPosition
             n == Len(before)
         IN IF goalId \in IdSet(before)
            THEN (Dense(before) /\ p <= n - 1) =>
                   /\ Len(after) = n
                   /\ after[p + 1].id = goalId
                   /\ SelectSeq(IdsOf(after), LAMBDA id : id # goalId)
                        = SelectSeq(IdsOf(before), LAMBDA id : id # goalId)
                   /\ \A i \in 1..n : after[i].order = i - 1
                   /\ ((p = 0 /\ before[1].id = goalId) \/ (p = n - 1 /\ before[n].id = goalId)) =>
                        \A i, j \in 1..n :
                           after[i].id = before[j].id => after[i].order = before[j].order
            ELSE ls' = ls]_vars

\* The last of three goals was moved to the front, offline.
C22_Witness ==
  /\ last.op = "move" /\ last.from = 2 /\ last.newPosition = 0
  /\ Len(PersistedGoals(last.listType)) = 3
  /\ PersistedGoals(last.listType)[1].id = last.goalId
  /\ ~online /\ Len(getPendingReorders(ls)) = 1

\* C23: an active goal whose end date has passed is not shown in the active
\* column, and no operation on the other goals takes it out of the in-memory
\* or of the persisted active collection.
C23_ExpiredRetained ==
  [][\A i \in 1..Len(goals[1]) :
       daysRemaining(goals[1][i].endDate) < 0 =>
         /\ goals[1][i].id \notin IdSet(ActiveGoalsColumn(goals[1]))
         /\ goals[1][i].id \in IdSet(goals'[1])
         /\ goals[1][i].id \in IdSet(ls'[ACTIVE_GOALS_KEY].val)]_vars

\* C24: after a committed reorder of a collection with the id sequence ids, a
\* permutation of the goals shown, the list rendered for that collection
\* shows the goals in the sequence ids.
C24_ShownAsReordered ==
  [][\A listType \in ListTypes :
       (last'.op = "reorder" /\ last'.listType = listType
        /\ Range(last'.goalIds) = IdSet(Shown(1, listType))) =>
         IdsOf(Shown(1, listType))' = last'.goalIds]_vars

\* C25: with two tabs on one storage, under every interleaving of the tabs'
\* actions and of the deliveries of storage events, no goal id is persisted
\* under both doit_goals and doit_completed.
C25_KeysDisjoint ==
  IdSet(loadActiveGoals(ls)) \cap IdSet(loadCompletedGoals(ls)) = {}

\* C26: every goal marked pending-sync by an offline reorder is synced once
\* connectivity returns: when the online event has been handled and the queue
\* drained, every persisted goal a queued reorder named is marked synced, and
\* none is marked pending-sync.
C26_PendingBecomesSynced ==
  [][(last'.op = "online" /\ last'.pending >= 1) =>
       \A queued \in Range(getPendingReorders(ls)) :
         \A after \in {ls'[getStorageKey(queued.listType)].val} :
           \A i \in 1..Len(after) :
             after[i].id \in Range(queued.goalIds) => after[i].syncStatus = "synced"]_vars

\* C27: after any sequence of initialize and cleanup calls at most one
\* storage listener is registered, one storage change causes at most one
\* callback invocation, and after cleanup no listener is registered.
C27_SingleSubscription ==
  /\ Cardinality(notifier.registered) <= 1
  /\ last.op = "storage" => Len(last.callbacks) <= 1
  /\ last.op = "cleanup" => notifier.registered = {}

\* C28: a tab in which the user does nothing never changes the persisted
\* value of either collection key: neither its handling of a storage event
\* nor the save effects that follow change what the other tab wrote last,
\* whenever the other tab writes.
C28_ObserverWritesNothing ==
  [][((last'.op = "storage" \/ last'.op = "effects") /\ last'.tab = 2) =>
       /\ ls'[ACTIVE_GOALS_KEY] = ls[ACTIVE_GOALS_KEY]
       /\ ls'[COMPLETED_GOALS_KEY] = ls[COMPLETED_GOALS_KEY]]_vars

\* C29: whenever the persisted reorder queue is not empty and the browser is
\* online, the queue is emptied in the end, with no further change of
\* connectivity needed; so a queue an earlier session left is drained when the
\* page opens while online.
C29_QueueDrainsOnline ==
  (online /\ getPendingReorders(ls) # <<>>) ~> (getPendingReorders(ls) = <<>> \/ ~online)

\* C30: mounting never overwrites persisted data with the empty lists of the
\* first render: after mount each persisted collection holds the same goals
\* in the same sequence as before, every order that was defined is kept, and
\* the save effects wrote nothing while loading.
C30_MountKeepsData ==
  [][last'.op = "mount" =>
       /\ last'.whileLoading = <<>>
       /\ \A key \in {ACTIVE_GOALS_KEY, COMPLETED_GOALS_KEY} :
            \A before \in {loadGoals(ls, key)} : \A after \in {loadGoals(ls', key)} :
              /\ Len(after) = Len(before)
              /\ \A i \in 1..Len(before) :
                   /\ [after[i] EXCEPT !.order = 0] = [before[i] EXCEPT !.order = 0]
                   /\ before[i].order # NoOrder => after[i].order = before[i].order
                   /\ before[i].order = NoOrder => after[i].order = i - 1]_vars

\* The page was mounted on two active goals of an older build and a completed
\* one: the migration ran and the goals are persisted in their sequence.
C30_Witness ==
  /\ last.op = "mount" /\ last.migrated
  /\ IdsOf(PersistedGoals("active")) = <<1, 2>>
  /\ IdsOf(PersistedGoals("completed")) = <<3>>
  /\ PersistedGoals("active")[2].order = 1
  /\ ~isLoading[1]

====
